---- MODULE Spec2Model ----
(***************************************************************************)
(* Model of flame's Idata class (src/src/idata.py): the normalize loop,    *)
(* the workflow of one file, the consolidation of per-chunk results and    *)
(* run, with its pool of worker processes.                                 *)
(*                                                                         *)
(* Process 0 is the process of the caller; processes 1..numCPUs are the    *)
(* workers of the multiprocessing pool.  The collaborators whose code is   *)
(* not part of the sources (sdfileutils, _compute_md, _convert_3d, the     *)
(* standardiser and RDKit) are environment: their outcomes are chosen      *)
(* nondeterministically where the code calls them.                         *)
(***************************************************************************)
EXTENDS Integers, Sequences, FiniteSets, TLC

(***************************************************************************)
(* Bounds of the model.                                                    *)
(***************************************************************************)
MaxMols == 2
MaxCPUs == 2

Procs == 0 .. MaxCPUs

None == "None"

(***************************************************************************)
(* Files.  A path is the chunk it derives from (0: the input file of the   *)
(* Idata object) and the suffixes the stages inserted before the           *)
(* extension.  A file holds a sequence of structure records.               *)
(***************************************************************************)
Suffixes == { <<>>, <<"std">>, <<"3D">>, <<"std", "3D">> }
Paths == [chunk : 0 .. MaxCPUs, sfx : Suffixes]
NoPath == [chunk |-> 0 - 1, sfx |-> <<>>]
InputPath == [chunk |-> 0, sfx |-> <<>>]
ChunkPath(i) == [chunk |-> i, sfx |-> <<>>]

\* a normalize that writes the one file named after the input of run
StdPathShared(ifile) == [chunk |-> 0, sfx |-> <<"std">>]

\* filename, fileext = os.path.splitext(ifile); ofile = filename + '_std' + fileext
StdPath(ifile) == [ifile EXCEPT !.sfx = Append(@, "std")]

\* A structure of the input: its position in the input file, whether RDKit
\* can parse it (the supplier yields None when it cannot), and the kinds of
\* its activity and experimental annotations.
Mol(i, k) ==
    [id |-> i, ok |-> k.ok, act |-> k.act, exp |-> k.exp, parent |-> "raw",
     flameID |-> [prefix |-> "", digits |-> <<>>]]
Kind(ok, act, exp) == [ok |-> ok, act |-> act, exp |-> exp]
Unparseable == Kind(FALSE, "none", "none")
Plain == Kind(TRUE, "number", "none")

\* A file on disk: whether the reader can open it, whether a writer holds it
\* open, and its structures.
\* removed records that os.remove deleted the file.
NoFile ==
    [exists |-> FALSE, readable |-> FALSE, open |-> FALSE, removed |-> FALSE, recs |-> <<>>]
Unreadable == [NoFile EXCEPT !.exists = TRUE]
FileOf(recs) == [NoFile EXCEPT !.exists = TRUE, !.readable = TRUE, !.recs = recs]
Removed == [NoFile EXCEPT !.removed = TRUE]

\* The input files of the model: up to MaxMols structures of the given
\* kinds, numbered in file order.
SeqsUpTo(S, n) == UNION { [1 .. k -> S] : k \in 0 .. n }
FilesOf(kinds) ==
    { [i \in 1 .. Len(ks) |-> Mol(i, ks[i])] : ks \in SeqsUpTo(kinds, MaxMols) }
InputFiles == FilesOf({Unparseable, Plain})

RECURSIVE SelectOK(_)
\* the structures of a sequence the reader parses, in order
SelectOK(recs) ==
    IF recs = <<>> THEN <<>>
    ELSE IF Head(recs).ok THEN <<Head(recs)>> \o SelectOK(Tail(recs))
         ELSE SelectOK(Tail(recs))

Ids(recs) == [i \in 1 .. Len(recs) |-> recs[i].id]

(***************************************************************************)
(* Values handed between the methods: a message (with the tag of the stage *)
(* that built it), a path, or a descriptor result (matrix, names).         *)
(***************************************************************************)
NoMD == [np |-> FALSE, cols |-> 0, rows |-> <<>>, names |-> <<>>]
VNone == [t |-> "none", tag |-> "", msg |-> "", path |-> NoPath, md |-> NoMD]
VMsg(tag, msg) == [VNone EXCEPT !.t = "msg", !.tag = tag, !.msg = msg]
VPath(p) == [VNone EXCEPT !.t = "path", !.path = p]
VMD(md) == [VNone EXCEPT !.t = "md", !.md = md]

\* How a call ended: not yet, by return (success, value) or by an exception.
NoRet == [kind |-> "none", success |-> FALSE, value |-> VNone]
Return(success, value) == [kind |-> "return", success |-> success, value |-> value]
Raise(exc) == [kind |-> "raise", success |-> FALSE, value |-> VMsg("exception", exc)]

VARIABLES
    control,    \* the control object of the Idata instance
    fs,         \* the files on disk, by path
    pc,         \* pc[p]: where process p is
    nf,         \* nf[p]: the frame of normalize in process p
    nret,       \* nret[p]: how normalize ended in process p
    wf,         \* wf[p]: the frame of workflow in process p
    wret,       \* wret[p]: how workflow ended in process p
    cres,       \* the list of per-chunk results handed to consolidate
    cres0,      \* cres as it was when consolidate was called
    cret,       \* how consolidate ended
    rf,         \* the frame of run
    io,         \* where the standard error stream goes, and the RDKit log
    rret,       \* how run ended
    param,      \* the dictionary p of a Parameters object
    hashes      \* the calls of idataHash so far: the dictionary and the stamp

vars == <<control, fs, pc, nf, nret, wf, wret, cres, cres0, cret, rf, io, rret,
          param, hashes>>
cvars == <<cres, cres0, cret>>
rvars == <<rf, io, rret>>
hvars == <<param, hashes>>

\* no Parameters object is in use
NoParams == [p |-> [k \in {} |-> ""], sets |-> -1]

ChemstandMethods == {"standardize", None}
IonizeMethods == {None, "pH"}
\* convert3D_method: None, or a collection of method names (possibly empty)
NoMethods == [none |-> TRUE, names |-> {}]
Methods(names) == [none |-> FALSE, names |-> names]
Convert3DMethods == {NoMethods, Methods({}), Methods({"ETKDG"}), Methods({"other"})}
\* the descriptor methods computeMD knows, in the order it tries them
MDMethods == <<"RDKit_properties", "RDKit_md", "custom">>
MDNames == {MDMethods[i] : i \in 1 .. Len(MDMethods)}

DefaultControl ==
    [input_type |-> "molecule", chemstand_method |-> None, ionize_method |-> None,
     convert3D_method |-> NoMethods, MD |-> {"RDKit_md"}, numCPUs |-> 1]

NoWorkflow ==
    [ifile |-> NoPath, tfile |-> NoPath, success |-> FALSE, results |-> VNone,
     calls |-> <<>>, failed |-> <<>>, mdfile |-> NoPath, mdcalls |-> <<>>,
     mdresults |-> <<>>, md |-> NoRet, ended_before |-> {}, read |-> {},
     written |-> {}, caller |-> ""]

NoFrame ==
    [ifile |-> NoPath, clean |-> FALSE, caller |-> "", ofile |-> NoPath,
     suppl |-> <<>>, pos |-> 0, mcount |-> 0, merror |-> 0, outcomes |-> <<>>]

NoRun ==
    [verbose_error |-> TRUE, obj_nam |-> <<>>, ymatrix |-> <<>>, experim |-> <<>>,
     bound |-> FALSE, success |-> FALSE, results |-> VNone, split |-> "",
     split_files_names |-> <<>>, split_files_sizes |-> <<>>, run_no |-> 0]

\* sys.stderr goes to the console, or to errorRDKit.log while it is open
Console == [stderr |-> "console", log_open |-> FALSE]
Redirected == [stderr |-> "errorRDKit.log", log_open |-> TRUE]

InitDisk(file) == [p \in Paths |-> IF p = InputPath THEN file ELSE NoFile]

(***************************************************************************)
(* Idata.normalize                                                         *)
(***************************************************************************)
\* The outcomes of standardise.run on one structure.
StandardiseOutcomes == {"ok", "no_non_salt", "other_exception", "unknown_error"}

\* the client calls normalize(ifile, clean) on the input file
CallNormalize(clean) ==
    /\ pc[0] = "idle"
    /\ pc' = [pc EXCEPT ![0] = "n_open"]
    /\ nf' = [nf EXCEPT ![0] = [NoFrame EXCEPT !.ifile = InputPath, !.clean = clean,
                                               !.caller = "client"]]
    /\ UNCHANGED <<control, hvars, fs, nret, wf, wret, cvars, rvars>>

\* where normalize returns to
AfterNormalize(p) == IF nf[p].caller = "client" THEN "done" ELSE "wf_normalized"

\* Chem.SDMolSupplier(ifile) raises on a file it cannot open
ReaderFails(ifile) == ~fs[ifile].exists \/ ~fs[ifile].readable

\* try: suppl = Chem.SDMolSupplier(ifile); then open(ofile, 'w')
NormalizeOpen(p) ==
    /\ pc[p] = "n_open"
    /\ IF ReaderFails(nf[p].ifile)
       THEN /\ nret' = [nret EXCEPT ![p] = Return(FALSE,
                   VMsg("", "Error at processing input file for standardizing structures"))]
            /\ pc' = [pc EXCEPT ![p] = AfterNormalize(p)]
            /\ UNCHANGED <<fs, nf>>
       ELSE /\ nf' = [nf EXCEPT ![p].ofile = StdPath(nf[p].ifile),
                                ![p].suppl = fs[nf[p].ifile].recs,
                                ![p].pos = 1]
            /\ fs' = [fs EXCEPT ![StdPath(nf[p].ifile)] =
                          [FileOf(<<>>) EXCEPT !.open = TRUE]]
            /\ pc' = [pc EXCEPT ![p] = "n_loop"]
            /\ UNCHANGED nret
    /\ UNCHANGED <<control, hvars, wf, wret, cvars, rvars>>

\* leaving the with block (by return or by an exception) closes fo
CloseOfile(p) == [fs EXCEPT ![nf[p].ofile].open = FALSE]

\* flameID = 'fl%0.10d' % mcount: fl and the decimal digits of mcount,
\* padded with zeros to FlameIDWidth digits
FlameIDWidth == 10
RECURSIVE Pow10(_)
Pow10(n) == IF n = 0 THEN 1 ELSE 10 * Pow10(n - 1)
FlameID(mcount) ==
    [prefix |-> "fl",
     digits |-> [i \in 1 .. FlameIDWidth |-> (mcount \div Pow10(FlameIDWidth - i)) % 10]]

\* A structure written by normalize: the parent molblock followed by flameID.
Written(m, parent, mcount) ==
    [id |-> m.id, ok |-> TRUE, act |-> "none", exp |-> "none", parent |-> parent,
     flameID |-> FlameID(mcount)]

\* fo.write(parent); fo.write(flameID record); mcount += 1; fo.write('$$$$')
WriteParent(p, m, parent, o) ==
    /\ fs' = [fs EXCEPT ![nf[p].ofile].recs = Append(@, Written(m, parent, nf[p].mcount))]
    /\ nf' = [nf EXCEPT ![p].mcount = @ + 1, ![p].pos = @ + 1,
                        ![p].outcomes = Append(@, o)]
    /\ UNCHANGED <<pc, nret, wret, rret>>

\* a return from inside the loop, or an exception: workflow does not catch it
NormalizeAbort(p, how, o) ==
    /\ fs' = CloseOfile(p)
    /\ nret' = [nret EXCEPT ![p] = how]
    /\ pc' = [pc EXCEPT ![p] = IF how.kind = "raise" THEN "raised" ELSE AfterNormalize(p)]
    /\ wret' = IF how.kind = "raise" /\ nf[p].caller = "workflow"
               THEN [wret EXCEPT ![p] = how] ELSE wret
    /\ rret' = IF how.kind = "raise" /\ nf[p].caller = "workflow" /\ wf[p].caller = "run"
               THEN how ELSE rret
    /\ nf' = IF o = "" THEN nf ELSE [nf EXCEPT ![p].outcomes = Append(@, o)]

\* the skip of a structure RDKit does not recognise
SkipMolecule(p) ==
    /\ nf' = [nf EXCEPT ![p].merror = @ + 1, ![p].pos = @ + 1]
    /\ UNCHANGED <<fs, pc, nret, wret, rret>>

\* a normalize that treats the no_non_salt exception as any other exception
OnStandardiseStrict(o) ==
    CASE o = "ok" -> [write |-> TRUE, parent |-> "standardised", msg |-> ""]
      [] o = "unknown_error" ->
            [write |-> FALSE, parent |-> "", msg |-> "Unknown standardiser error"]
      [] OTHER -> [write |-> FALSE, parent |-> "", msg |-> "e.name"]

\* try: parent = standardise.run(...) and its except clauses: the parent to
\* write, or the message normalize returns with False
OnStandardise(o) ==
    CASE o = "ok" -> [write |-> TRUE, parent |-> "standardised", msg |-> ""]
      [] o = "no_non_salt" -> [write |-> TRUE, parent |-> "original", msg |-> ""]
      [] o = "other_exception" -> [write |-> FALSE, parent |-> "", msg |-> "e.name"]
      [] OTHER -> [write |-> FALSE, parent |-> "", msg |-> "Unknown standardiser error"]

\* one iteration of: for m in suppl
NormalizeStep(p) ==
    /\ pc[p] = "n_loop"
    /\ nf[p].pos <= Len(nf[p].suppl)
    /\ LET m == nf[p].suppl[nf[p].pos] IN
       IF ~m.ok
       THEN SkipMolecule(p)
       ELSE IF control.chemstand_method = "standardize"
            THEN \E o \in StandardiseOutcomes :
                    IF OnStandardise(o).write
                    THEN WriteParent(p, m, OnStandardise(o).parent, o)
                    ELSE NormalizeAbort(p, Return(FALSE, VMsg("", OnStandardise(o).msg)), o)
            \* parent was never assigned: fo.write(parent) raises
            ELSE NormalizeAbort(p, Raise("UnboundLocalError"), "")
    /\ UNCHANGED <<control, hvars, wf, cvars, rf, io>>

\* the end of the loop and of the with block
NormalizeClose(p) ==
    /\ pc[p] = "n_loop"
    /\ nf[p].pos > Len(nf[p].suppl)
    /\ fs' = CloseOfile(p)
    /\ pc' = [pc EXCEPT ![p] = "n_clean"]
    /\ UNCHANGED <<control, hvars, nf, nret, wf, wret, cvars, rvars>>

\* a normalize that removes the input file whatever the clean flag
CleanAlways(p, removes) == [fs EXCEPT ![nf[p].ifile] = Removed]

\* if clean: try: os.remove(ifile) except OSError: pass; removes: whether
\* os.remove deletes the file
Clean(p, removes) ==
    IF nf[p].clean /\ removes THEN [fs EXCEPT ![nf[p].ifile] = Removed] ELSE fs

\* if clean: ...; result = ofile; return success, result
NormalizeFinish(p) ==
    /\ pc[p] = "n_clean"
    /\ \E removes \in BOOLEAN : fs' = Clean(p, removes)
    /\ nret' = [nret EXCEPT ![p] = Return(TRUE, VPath(nf[p].ofile))]
    /\ pc' = [pc EXCEPT ![p] = AfterNormalize(p)]
    /\ UNCHANGED <<control, hvars, nf, wf, wret, cvars, rvars>>

(***************************************************************************)
(* The specification of a call of normalize on the input file.             *)
(***************************************************************************)
InitNormalize ==
    /\ control \in { [DefaultControl EXCEPT !.chemstand_method = c] : c \in ChemstandMethods }
    /\ fs \in { InitDisk(f) : f \in { FileOf(r) : r \in InputFiles } \cup {NoFile, Unreadable} }
    /\ pc = [p \in Procs |-> "idle"]
    /\ nf = [p \in Procs |-> NoFrame]
    /\ nret = [p \in Procs |-> NoRet]
    /\ wf = [p \in Procs |-> NoWorkflow]
    /\ wret = [p \in Procs |-> NoRet]
    /\ cres = <<>>
    /\ cres0 = <<>>
    /\ cret = NoRet
    /\ rf = NoRun
    /\ io = Console
    /\ rret = NoRet
    /\ param = NoParams
    /\ hashes = <<>>

NextNormalize ==
    \/ \E clean \in BOOLEAN : CallNormalize(clean)
    \/ NormalizeOpen(0)
    \/ NormalizeStep(0)
    \/ NormalizeClose(0)
    \/ NormalizeFinish(0)

SpecNormalize == InitNormalize /\ [][NextNormalize]_vars

(***************************************************************************)
(* The stages of the workflow: ionize, convert3D and computeMD.            *)
(***************************************************************************)
\* Idata.ionize
Ionize(ifile) == Return(TRUE, VPath(ifile))

\* convert3D._ETKDG writes the 3D structures of ifile to a new file
ETKDGPath(ifile) == [ifile EXCEPT !.sfx = Append(@, "3D")]

\* Idata.convert3D; etkdg: whether convert3D._ETKDG succeeds on ifile
Convert3D(ifile, etkdg) ==
    IF control.convert3D_method.none \/ control.convert3D_method.names = {}
    THEN Return(TRUE, VPath(ifile))
    ELSE IF "ETKDG" \in control.convert3D_method.names
         THEN IF etkdg THEN Return(TRUE, VPath(ETKDGPath(ifile)))
              ELSE Return(FALSE, VMsg("", "ETKDG failed"))
         ELSE Return(FALSE, VMsg("", "not converted to 3D"))

\* the files convert3D._ETKDG reads
Convert3DReads(ifile) ==
    IF /\ ~control.convert3D_method.none
       /\ "ETKDG" \in control.convert3D_method.names
       /\ ~ReaderFails(ifile)
    THEN {ifile} ELSE {}

\* the file convert3D._ETKDG leaves on disk
Convert3DDisk(ifile, etkdg) ==
    IF /\ ~control.convert3D_method.none
       /\ "ETKDG" \in control.convert3D_method.names
       /\ etkdg
    THEN [fs EXCEPT ![ETKDGPath(ifile)] = FileOf(SelectOK(fs[ifile].recs))]
    ELSE fs

\* The descriptors of a method: one row per structure of the file, and a
\* number of columns and a list of names fixed by the method.
ColsOf(m) == IF m = "RDKit_properties" THEN 1 ELSE 2
Name(m, j) == [list |-> FALSE, name |-> <<m, j>>, items |-> <<>>]
NamesOf(m) == [j \in 1 .. ColsOf(m) |-> Name(m, j)]
DescriptorsOf(m, ifile) ==
    [np |-> TRUE, cols |-> ColsOf(m), rows |-> Ids(SelectOK(fs[ifile].recs)),
     names |-> NamesOf(m)]

\* the files the RDKit methods of computeMD read
ComputeMDReads(ifile) ==
    IF control.MD \cap {"RDKit_properties", "RDKit_md"} # {} /\ ~ReaderFails(ifile)
    THEN {ifile} ELSE {}

\* computeMD._RDKit_properties and computeMD._RDKit_descriptors
RDKitMethod(m, ifile, ok) ==
    IF ok /\ ~ReaderFails(ifile) THEN Return(TRUE, VMD(DescriptorsOf(m, ifile)))
    ELSE Return(FALSE, VMsg("", "descriptor method failed"))

\* Idata.computeMD_custom
ComputeMD_custom(ifile) == Return(FALSE, VMsg("", "not implemented"))

\* the call of one descriptor method
MethodCall(m, ifile, oks) ==
    IF m = "custom" THEN ComputeMD_custom(ifile) ELSE RDKitMethod(m, ifile, oks[m])

\* a computeMD that calls computeMD_custom whatever control.MD holds
InvokedWithCustom == SelectSeq(MDMethods, LAMBDA m : m \in control.MD \/ m = "custom")

\* the methods computeMD invokes, in order
Invoked == SelectSeq(MDMethods, LAMBDA m : m \in control.MD)

\* what the invoked methods return, in the order of their calls
MethodResults(ifile, oks) ==
    [i \in 1 .. Len(Invoked) |-> MethodCall(Invoked[i], ifile, oks)]

\* results_all: the results of the invoked methods that succeeded
ResultsAll(ifile, oks) ==
    LET good == SelectSeq(MethodResults(ifile, oks), LAMBDA r : r.success)
    IN  [i \in 1 .. Len(good) |-> good[i].value]

\* return success, results: the payload holds the result of one method
PayloadEntries(r) == <<r.value>>

\* Idata.computeMD; oks[m]: whether the RDKit method m succeeds on ifile.
\* success and results are those of the last method invoked.
ComputeMD(ifile, oks) ==
    IF Len(ResultsAll(ifile, oks)) = 0
    THEN Return(FALSE, VMsg("", "undefined MD"))
    ELSE MethodCall(Invoked[Len(Invoked)], ifile, oks)

(***************************************************************************)
(* Idata.workflow                                                          *)
(***************************************************************************)
\* where workflow returns to
AfterWorkflow(p) ==
    CASE wf[p].caller = "client" -> "done"
      [] wf[p].caller = "run" -> "run_check"
      [] OTHER -> "w_done"

\* a worker of the pool has ended: its workflow returned or raised
WorkerEnded(p) == pc[p] \in {"w_done", "raised"}
\* the workers that have ended
EndedWorkers == { q \in 1 .. MaxCPUs : WorkerEnded(q) }

WorkflowReturn(p, how) ==
    /\ wret' = [wret EXCEPT ![p] = how]
    /\ pc' = [pc EXCEPT ![p] = AfterWorkflow(p)]

\* the client calls workflow(ifile) on the input file
CallWorkflow ==
    /\ pc[0] = "idle"
    /\ wf' = [wf EXCEPT ![0] = [NoWorkflow EXCEPT !.ifile = InputPath, !.caller = "client"]]
    /\ pc' = [pc EXCEPT ![0] = "wf_start"]
    /\ UNCHANGED <<control, hvars, fs, nf, nret, wret, cvars, rvars>>

\* a workflow that calls normalize(tfile, clean=True)
WorkflowStartClean(p) ==
    /\ pc[p] = "wf_start"
    /\ wf' = [wf EXCEPT ![p].tfile = wf[p].ifile, ![p].calls = Append(@, "normalize")]
    /\ nf' = [nf EXCEPT ![p] = [NoFrame EXCEPT !.ifile = wf[p].ifile, !.clean = TRUE,
                                               !.caller = "workflow"]]
    /\ pc' = [pc EXCEPT ![p] = "n_open"]
    /\ UNCHANGED <<control, hvars, fs, nret, wret, cvars, rvars>>

\* tfile = ifile; success, results = self.normalize(tfile)
WorkflowStart(p) ==
    /\ pc[p] = "wf_start"
    /\ wf' = [wf EXCEPT ![p].tfile = wf[p].ifile, ![p].calls = Append(@, "normalize")]
    /\ nf' = [nf EXCEPT ![p] = [NoFrame EXCEPT !.ifile = wf[p].ifile, !.clean = FALSE,
                                               !.caller = "workflow"]]
    /\ pc' = [pc EXCEPT ![p] = "n_open"]
    /\ UNCHANGED <<control, hvars, fs, nret, wret, cvars, rvars>>

\* if not success: results = 'Input error: ...' + str(results) else: tfile = results
WorkflowNormalized(p) ==
    /\ pc[p] = "wf_normalized"
    /\ wf' = IF ~nret[p].success
             THEN [wf EXCEPT ![p].success = FALSE,
                             ![p].results = VMsg("normalize", nret[p].value.msg),
                             ![p].failed = Append(@, "normalize")]
             ELSE [wf EXCEPT ![p].success = TRUE,
                             ![p].results = nret[p].value,
                             ![p].tfile = nret[p].value.path]
    /\ pc' = [pc EXCEPT ![p] = "wf_ionize"]
    /\ UNCHANGED <<control, hvars, fs, nf, nret, wret, cvars, rvars>>

\* if self.control.ionize_method != None: success, results = self.ionize(tfile)
WorkflowIonize(p) ==
    /\ pc[p] = "wf_ionize"
    /\ IF control.ionize_method # None
       THEN LET r == Ionize(wf[p].tfile) IN
            IF ~r.success
            THEN /\ WorkflowReturn(p, Return(FALSE, VMsg("ionize", r.value.msg)))
                 /\ wf' = [wf EXCEPT ![p].calls = Append(@, "ionize"),
                                     ![p].failed = Append(@, "ionize"),
                                     ![p].ended_before = EndedWorkers,
                                     ![p].success = FALSE, ![p].results = r.value]
            ELSE /\ wf' = [wf EXCEPT ![p].calls = Append(@, "ionize"),
                                     ![p].success = TRUE, ![p].results = r.value,
                                     ![p].tfile = r.value.path]
                 /\ pc' = [pc EXCEPT ![p] = "wf_convert3D"]
                 /\ UNCHANGED wret
       ELSE /\ pc' = [pc EXCEPT ![p] = "wf_convert3D"]
            /\ UNCHANGED <<wf, wret>>
    /\ UNCHANGED <<control, hvars, fs, nf, nret, cvars, rvars>>

\* if self.control.convert3D_method != None: success, results = self.convert3D(tfile)
WorkflowConvert3D(p) ==
    /\ pc[p] = "wf_convert3D"
    /\ IF ~control.convert3D_method.none
       THEN \E etkdg \in BOOLEAN :
            LET r == Convert3D(wf[p].tfile, etkdg /\ ~ReaderFails(wf[p].tfile)) IN
            /\ fs' = Convert3DDisk(wf[p].tfile, etkdg /\ ~ReaderFails(wf[p].tfile))
            /\ IF ~r.success
               THEN /\ WorkflowReturn(p, Return(FALSE, VMsg("convert3D", r.value.msg)))
                    /\ wf' = [wf EXCEPT ![p].calls = Append(@, "convert3D"),
                                        ![p].read = @ \cup Convert3DReads(wf[p].tfile),
                                        ![p].failed = Append(@, "convert3D"),
                                        ![p].ended_before = EndedWorkers,
                                        ![p].success = FALSE, ![p].results = r.value]
               ELSE /\ wf' = [wf EXCEPT ![p].calls = Append(@, "convert3D"),
                                        ![p].read = @ \cup Convert3DReads(wf[p].tfile),
                                        ![p].written = @ \cup
                                            (IF r.value.path = wf[p].tfile THEN {}
                                             ELSE {r.value.path}),
                                        ![p].success = TRUE, ![p].results = r.value,
                                        ![p].tfile = r.value.path]
                    /\ pc' = [pc EXCEPT ![p] = "wf_computeMD"]
                    /\ UNCHANGED wret
       ELSE /\ pc' = [pc EXCEPT ![p] = "wf_computeMD"]
            /\ UNCHANGED <<fs, wf, wret>>
    /\ UNCHANGED <<control, hvars, nf, nret, cvars, rvars>>

\* success, results = self.computeMD(tfile); the return of workflow
WorkflowComputeMD(p) ==
    /\ pc[p] = "wf_computeMD"
    /\ \E oks \in [control.MD \ {"custom"} -> BOOLEAN] :
       LET r == ComputeMD(wf[p].tfile, oks) IN
       /\ wf' = [wf EXCEPT ![p].calls = Append(@, "computeMD"),
                           ![p].mdfile = wf[p].tfile, ![p].mdcalls = Invoked,
                           ![p].mdresults = MethodResults(wf[p].tfile, oks), ![p].md = r,
                           ![p].ended_before = EndedWorkers,
                           ![p].read = @ \cup ComputeMDReads(wf[p].tfile),
                           ![p].failed = IF r.success THEN @ ELSE Append(@, "computeMD"),
                           ![p].success = r.success, ![p].results = r.value]
       /\ IF ~r.success
          THEN WorkflowReturn(p, Return(FALSE, VMsg("computeMD", r.value.msg)))
          ELSE WorkflowReturn(p, Return(r.success, r.value))
    /\ UNCHANGED <<control, hvars, fs, nf, nret, cvars, rvars>>

Normalize(p) ==
    \/ NormalizeOpen(p)
    \/ NormalizeStep(p)
    \/ NormalizeClose(p)
    \/ NormalizeFinish(p)

Workflow(p) ==
    \/ WorkflowStart(p)
    \/ WorkflowNormalized(p)
    \/ WorkflowIonize(p)
    \/ WorkflowConvert3D(p)
    \/ WorkflowComputeMD(p)

(***************************************************************************)
(* Idata.consolidate                                                       *)
(***************************************************************************)
\* a vstack that accepts matrices of any widths
VStackableAlways(a, b) == TRUE
\* a vstack that puts the rows of the later chunk first
VStackReversed(a, b) == [cols |-> a.cols, rows |-> b.rows \o a.rows]

\* np.vstack raises ValueError unless the column counts agree
VStackable(a, b) == a.cols = b.cols
VStack(a, b) == [cols |-> a.cols, rows |-> a.rows \o b.rows]

\* nnames.append(internal[1]): the list of the chunk becomes one element
ListEntry(names) == [list |-> TRUE, name |-> <<"", 0>>, items |-> names]

\* The locals of consolidate before the loop.  owner is the chunk whose name
\* list nnames is (0: the list consolidate created).
ConsolidateStart ==
    [success |-> TRUE, first |-> TRUE, none |-> TRUE, nresults |-> [cols |-> 0, rows |-> <<>>],
     nnames |-> <<>>, owner |-> 0, results |-> VNone, exc |-> "", stop |-> FALSE]

\* one iteration of: for iresults in results
ConsolidateChunk(st, iresults, i) ==
    IF iresults.success = FALSE
    THEN [st EXCEPT !.success = FALSE, !.results = iresults.value, !.stop = TRUE]
    ELSE LET internal == iresults.value.md IN
         IF internal.np
         THEN IF st.first
              THEN [st EXCEPT !.nresults = [cols |-> internal.cols, rows |-> internal.rows],
                              !.none = FALSE, !.nnames = internal.names, !.owner = i,
                              !.first = FALSE]
              ELSE IF VStackable(st.nresults, internal)
                   THEN [st EXCEPT !.nresults = VStack(st.nresults, internal),
                                   !.nnames = Append(@, ListEntry(internal.names))]
                   ELSE [st EXCEPT !.exc = "ValueError", !.stop = TRUE]
         ELSE st

RECURSIVE ConsolidateLoop(_, _, _)
ConsolidateLoop(st, results, i) ==
    IF i > Len(results) \/ st.stop THEN st
    ELSE ConsolidateLoop(ConsolidateChunk(st, results[i], i), results, i + 1)

\* if success: result = (nresults, nnames); return True, result
ConsolidateReturn(st) ==
    IF st.exc # "" THEN Raise(st.exc)
    ELSE IF st.success
         THEN Return(TRUE, VMD([np |-> ~st.none, cols |-> st.nresults.cols,
                                rows |-> st.nresults.rows, names |-> st.nnames]))
         ELSE Raise("UnboundLocalError")

Consolidate(results) == ConsolidateReturn(ConsolidateLoop(ConsolidateStart, results, 1))

\* the list of results after the call: nnames is the list of chunk owner
ConsolidateAfter(results) ==
    LET st == ConsolidateLoop(ConsolidateStart, results, 1) IN
    IF st.owner = 0 THEN results
    ELSE [results EXCEPT ![st.owner].value.md.names = st.nnames]

\* the client calls consolidate(results, nobj)
CallConsolidate ==
    /\ pc[0] = "idle"
    /\ cres0' = cres
    /\ cret' = Consolidate(cres)
    /\ cres' = ConsolidateAfter(cres)
    /\ pc' = [pc EXCEPT ![0] = IF Consolidate(cres).kind = "raise" THEN "raised" ELSE "done"]
    /\ UNCHANGED <<control, hvars, fs, nf, nret, wf, wret, rvars>>

(***************************************************************************)
(* Idata.extractAnotations and Idata.run                                   *)
(***************************************************************************)
\* an extractAnotations that does not skip the structures RDKit cannot parse
ExtractAnotationsAll(recs) ==
    [raises |-> \E i \in 1 .. Len(recs) : recs[i].exp = "text",
     obj_nam |-> Ids(recs),
     ymatrix |-> [i \in 1 .. Len(recs) |->
                     IF recs[i].act = "number" THEN "value" ELSE "nan"],
     experim |-> [i \in 1 .. Len(recs) |->
                     IF recs[i].exp = "number" THEN "value" ELSE "nan"]]

\* Idata.extractAnotations: the names, activities and experimental values
\* of the structures RDKit parses.  np.array(obj_exp, dtype=np.float64)
\* raises ValueError on a value that is not a number.
ExtractAnotations(recs) ==
    LET mols == SelectOK(recs) IN
    [raises |-> \E i \in 1 .. Len(mols) : mols[i].exp = "text",
     obj_nam |-> Ids(mols),
     ymatrix |-> [i \in 1 .. Len(mols) |->
                     IF mols[i].act = "number" THEN "value" ELSE "nan"],
     experim |-> [i \in 1 .. Len(mols) |->
                     IF mols[i].exp = "number" THEN "value" ELSE "nan"]]

\* sdfu.split_SDFile: numCPUs chunks of contiguous structures whose sizes
\* differ by at most one
ChunkSize(n, w, i) == (n \div w) + (IF i <= n % w THEN 1 ELSE 0)
RECURSIVE ChunkStart(_, _, _)
ChunkStart(n, w, i) == IF i = 1 THEN 0 ELSE ChunkStart(n, w, i - 1) + ChunkSize(n, w, i - 1)
Chunk(recs, w, i) ==
    SubSeq(recs, ChunkStart(Len(recs), w, i) + 1,
                 ChunkStart(Len(recs), w, i) + ChunkSize(Len(recs), w, i))

RunRaise(exc) ==
    /\ rret' = Raise(exc)
    /\ pc' = [pc EXCEPT ![0] = "raised"]

\* the client calls run(verbose_error)
CallRun(verbose_error) ==
    /\ pc[0] = "idle"
    /\ rf' = [NoRun EXCEPT !.verbose_error = verbose_error, !.run_no = 1]
    /\ IF control.input_type = "molecule"
       THEN /\ io' = IF ~verbose_error THEN Redirected ELSE io
            /\ pc' = [pc EXCEPT ![0] = "run_extract"]
       ELSE /\ pc' = [pc EXCEPT ![0] = "run_post"]
            /\ UNCHANGED io
    /\ UNCHANGED <<control, hvars, fs, nf, nret, wf, wret, cvars, rret>>

\* results = self.extractAnotations(self.ifile)
RunExtract ==
    /\ pc[0] = "run_extract"
    /\ IF ReaderFails(InputPath)
       THEN RunRaise("OSError") /\ UNCHANGED rf
       ELSE LET e == ExtractAnotations(fs[InputPath].recs) IN
            IF e.raises
            THEN RunRaise("ValueError") /\ UNCHANGED rf
            ELSE /\ rf' = [rf EXCEPT !.obj_nam = e.obj_nam, !.ymatrix = e.ymatrix,
                                     !.experim = e.experim, !.bound = TRUE]
                 /\ pc' = [pc EXCEPT ![0] = IF control.numCPUs > 1 THEN "run_split"
                                            ELSE "run_direct"]
                 /\ UNCHANGED rret
    /\ UNCHANGED <<control, hvars, fs, nf, nret, wf, wret, cvars, io>>

\* a run that starts the workers whatever the success of the split
RunSplitUnchecked ==
    /\ pc[0] = "run_split"
    /\ \E ok \in BOOLEAN :
          rf' = [rf EXCEPT
                    !.success = ok, !.split = IF ok THEN "done" ELSE "failed",
                    !.split_files_names = [i \in 1 .. control.numCPUs |-> ChunkPath(i)],
                    !.split_files_sizes = [i \in 1 .. control.numCPUs |->
                        ChunkSize(Len(fs[InputPath].recs), control.numCPUs, i)]]
    /\ fs' = [p \in Paths |->
                IF p.sfx = <<>> /\ p.chunk \in 1 .. control.numCPUs
                THEN FileOf(Chunk(fs[InputPath].recs, control.numCPUs, p.chunk))
                ELSE fs[p]]
    /\ pc' = [pc EXCEPT ![0] = "run_map"]
    /\ UNCHANGED <<control, hvars, nf, nret, wf, wret, cvars, io, rret>>

\* success, results = sdfu.split_SDFile(self.ifile, self.control.numCPUs)
RunSplit ==
    /\ pc[0] = "run_split"
    /\ \E ok \in BOOLEAN :
       IF ~ok
       THEN /\ rret' = Return(FALSE, VMsg("run", "error splitting"))
            /\ pc' = [pc EXCEPT ![0] = "done"]
            /\ rf' = [rf EXCEPT !.success = FALSE, !.split = "failed"]
            /\ UNCHANGED fs
       ELSE /\ fs' = [p \in Paths |->
                        IF p.sfx = <<>> /\ p.chunk \in 1 .. control.numCPUs
                        THEN FileOf(Chunk(fs[InputPath].recs, control.numCPUs, p.chunk))
                        ELSE fs[p]]
            /\ rf' = [rf EXCEPT
                        !.success = TRUE, !.split = "done",
                        !.split_files_names = [i \in 1 .. control.numCPUs |-> ChunkPath(i)],
                        !.split_files_sizes = [i \in 1 .. control.numCPUs |->
                            ChunkSize(Len(fs[InputPath].recs), control.numCPUs, i)]]
            /\ pc' = [pc EXCEPT ![0] = "run_map"]
            /\ UNCHANGED rret
    /\ UNCHANGED <<control, hvars, nf, nret, wf, wret, cvars, io>>

\* pool = mp.Pool(numCPUs); pool.map(self.workflow, split_files_names):
\* worker i runs workflow on chunk i
RunMap ==
    /\ pc[0] = "run_map"
    /\ wf' = [p \in Procs |->
                IF p \in 1 .. Len(rf.split_files_names)
                THEN [NoWorkflow EXCEPT !.ifile = rf.split_files_names[p], !.caller = "pool"]
                ELSE wf[p]]
    /\ pc' = [p \in Procs |->
                IF p \in 1 .. Len(rf.split_files_names) THEN "wf_start"
                ELSE IF p = 0 THEN "run_join" ELSE pc[p]]
    /\ UNCHANGED <<control, hvars, fs, nf, nret, wret, cvars, rvars>>

\* a pool.map that returns once one worker has ended
SomeWorkerEnded == \E p \in 1 .. control.numCPUs : WorkerEnded(p)
\* a pool.map that lists the results from the last chunk to the first
PoolResultsReversed == [i \in 1 .. control.numCPUs |-> wret[control.numCPUs + 1 - i]]

\* pool.map blocks until every worker has ended
AllWorkersEnded == \A p \in 1 .. control.numCPUs : WorkerEnded(p)
\* the list pool.map returns: result i is the result of chunk i
PoolResults == [i \in 1 .. control.numCPUs |-> wret[i]]

\* pool.map returns the results in the order of the chunks once every worker
\* has ended, or raises the exception of a worker
RunJoin ==
    /\ pc[0] = "run_join"
    /\ AllWorkersEnded
    /\ IF \E p \in 1 .. control.numCPUs : pc[p] = "raised"
       THEN /\ \E p \in 1 .. control.numCPUs :
                 /\ pc[p] = "raised"
                 /\ rret' = wret[p]
            /\ pc' = [pc EXCEPT ![0] = "raised"]
            /\ UNCHANGED cres
       ELSE /\ cres' = PoolResults
            /\ pc' = [pc EXCEPT ![0] = "run_consolidate"]
            /\ UNCHANGED rret
    /\ UNCHANGED <<control, hvars, fs, nf, nret, wf, wret, cres0, cret, rf, io>>

\* success, results = self.consolidate(results, split_files_sizes)
RunConsolidate ==
    /\ pc[0] = "run_consolidate"
    /\ cres0' = cres
    /\ cret' = Consolidate(cres)
    /\ cres' = ConsolidateAfter(cres)
    /\ IF Consolidate(cres).kind = "raise"
       THEN /\ rret' = Consolidate(cres)
            /\ pc' = [pc EXCEPT ![0] = "raised"]
       ELSE /\ pc' = [pc EXCEPT ![0] = "run_check"]
            /\ UNCHANGED rret
    /\ UNCHANGED <<control, hvars, fs, nf, nret, wf, wret, rf, io>>

\* success, results = self.workflow(self.ifile)
RunDirect ==
    /\ pc[0] = "run_direct"
    /\ wf' = [wf EXCEPT ![0] = [NoWorkflow EXCEPT !.ifile = InputPath, !.caller = "run"]]
    /\ pc' = [pc EXCEPT ![0] = "wf_start"]
    /\ UNCHANGED <<control, hvars, fs, nf, nret, wret, cvars, rvars>>

\* what run holds in success, results after the workflow or the consolidation
RunResults == IF control.numCPUs > 1 THEN cret ELSE wret[0]

\* if not success: return False, results; then the restore of stderr
RunCheck ==
    /\ pc[0] = "run_check"
    /\ IF ~RunResults.success
       THEN /\ rret' = Return(FALSE, RunResults.value)
            /\ pc' = [pc EXCEPT ![0] = "done"]
            /\ UNCHANGED io
       ELSE /\ io' = IF ~rf.verbose_error THEN Console ELSE io
            /\ pc' = [pc EXCEPT ![0] = "run_post"]
            /\ UNCHANGED rret
    /\ rf' = [rf EXCEPT !.success = RunResults.success, !.results = RunResults.value]
    /\ UNCHANGED <<control, hvars, fs, nf, nret, wf, wret, cvars>>

\* xmatrix = results[0]; var_nam = results[1]; success = self.save(results);
\* return success, (xmatrix, ymatrix, experim, obj_nam, var_nam)
RunPost ==
    /\ pc[0] = "run_post"
    /\ IF ~rf.bound
       THEN RunRaise("UnboundLocalError")
       ELSE /\ rret' = Return(TRUE, rf.results)
            /\ pc' = [pc EXCEPT ![0] = "done"]
    /\ UNCHANGED <<control, hvars, fs, nf, nret, wf, wret, cvars, rf, io>>

(***************************************************************************)
(* The specification of a call of workflow on the input file.              *)
(***************************************************************************)
WorkflowControls ==
    { [DefaultControl EXCEPT !.chemstand_method = c, !.ionize_method = i,
                             !.convert3D_method = d, !.MD = m] :
        c \in ChemstandMethods, i \in IonizeMethods, d \in Convert3DMethods,
        m \in SUBSET MDNames }

InitWorkflow ==
    /\ control \in WorkflowControls
    /\ fs \in { InitDisk(f) : f \in { FileOf(r) : r \in InputFiles } \cup {NoFile, Unreadable} }
    /\ pc = [p \in Procs |-> "idle"]
    /\ nf = [p \in Procs |-> NoFrame]
    /\ nret = [p \in Procs |-> NoRet]
    /\ wf = [p \in Procs |-> NoWorkflow]
    /\ wret = [p \in Procs |-> NoRet]
    /\ cres = <<>>
    /\ cres0 = <<>>
    /\ cret = NoRet
    /\ rf = NoRun
    /\ io = Console
    /\ rret = NoRet
    /\ param = NoParams
    /\ hashes = <<>>

NextWorkflow ==
    \/ CallWorkflow
    \/ Normalize(0)
    \/ Workflow(0)

SpecWorkflow == InitWorkflow /\ [][NextWorkflow]_vars

(***************************************************************************)
(* The specification of a call of consolidate on a list of results.        *)
(***************************************************************************)
MaxChunks == 3
MaxCols == 2
MaxRows == 1

ErrorMessages == {"first error", "second error"}
ChunkNames(c) == [j \in 1 .. c |-> Name("d", j)]
\* the result of one chunk: a failure, or a matrix of n rows and c columns
ChunkResults ==
    { Return(FALSE, VMsg("computeMD", e)) : e \in ErrorMessages } \cup
    { Return(TRUE, VMD([np |-> np, cols |-> c, rows |-> [k \in 1 .. n |-> k],
                        names |-> ChunkNames(c)])) :
        np \in BOOLEAN, c \in 1 .. MaxCols, n \in 1 .. MaxRows }
\* the rows of chunk i are numbered 10 * i + 1, 10 * i + 2, ...
NumberRows(rs) ==
    [i \in 1 .. Len(rs) |->
        IF rs[i].success
        THEN [rs[i] EXCEPT !.value.md.rows = [k \in 1 .. Len(@) |-> 10 * i + k]]
        ELSE rs[i]]
ResultLists == { NumberRows(rs) : rs \in SeqsUpTo(ChunkResults, MaxChunks) }

InitConsolidate ==
    /\ control = DefaultControl
    /\ fs = InitDisk(NoFile)
    /\ pc = [p \in Procs |-> "idle"]
    /\ nf = [p \in Procs |-> NoFrame]
    /\ nret = [p \in Procs |-> NoRet]
    /\ wf = [p \in Procs |-> NoWorkflow]
    /\ wret = [p \in Procs |-> NoRet]
    /\ cres \in ResultLists
    /\ cres0 = <<>>
    /\ cret = NoRet
    /\ rf = NoRun
    /\ io = Console
    /\ rret = NoRet
    /\ param = NoParams
    /\ hashes = <<>>

NextConsolidate == CallConsolidate

SpecConsolidate == InitConsolidate /\ [][NextConsolidate]_vars

(***************************************************************************)
(* The specification of a call of run.                                     *)
(***************************************************************************)
InputTypes == {"molecule", "data", "unknown"}
RunControls ==
    { [DefaultControl EXCEPT !.input_type = t, !.chemstand_method = c,
                             !.convert3D_method = d, !.MD = m, !.numCPUs = n] :
        t \in InputTypes, c \in ChemstandMethods,
        d \in {NoMethods, Methods({"ETKDG"})},
        m \in {{"RDKit_md"}},
        n \in 1 .. MaxCPUs }
RunFiles == FilesOf({Unparseable, Plain, Kind(TRUE, "text", "text")})

Init ==
    /\ control \in RunControls
    /\ fs \in { InitDisk(f) : f \in { FileOf(r) : r \in RunFiles } \cup {NoFile, Unreadable} }
    /\ pc = [p \in Procs |-> "idle"]
    /\ nf = [p \in Procs |-> NoFrame]
    /\ nret = [p \in Procs |-> NoRet]
    /\ wf = [p \in Procs |-> NoWorkflow]
    /\ wret = [p \in Procs |-> NoRet]
    /\ cres = <<>>
    /\ cres0 = <<>>
    /\ cret = NoRet
    /\ rf = NoRun
    /\ io = Console
    /\ rret = NoRet
    /\ param = NoParams
    /\ hashes = <<>>

Next ==
    \/ CallRun(TRUE)
    \/ RunExtract
    \/ RunSplit
    \/ RunMap
    \/ RunJoin
    \/ RunConsolidate
    \/ RunDirect
    \/ RunCheck
    \/ RunPost
    \/ \E p \in Procs : Normalize(p)
    \/ \E p \in Procs : Workflow(p)

\* run() with the default of its parameter, verbose_error = True
Spec == Init /\ [][Next]_vars

\* run(verbose_error) with either value of verbose_error
NextVerbose ==
    \/ \E v \in BOOLEAN : CallRun(v)
    \/ RunExtract
    \/ RunSplit
    \/ RunMap
    \/ RunJoin
    \/ RunConsolidate
    \/ RunDirect
    \/ RunCheck
    \/ RunPost
    \/ \E p \in Procs : Normalize(p)
    \/ \E p \in Procs : Workflow(p)

SpecVerbose == Init /\ [][NextVerbose]_vars

\* The steps of run in the calling process, and the steps of process p.
RunSteps ==
    \/ RunExtract
    \/ RunSplit
    \/ RunMap
    \/ RunJoin
    \/ RunConsolidate
    \/ RunDirect
    \/ RunCheck
    \/ RunPost
ProcessSteps(p) == Normalize(p) \/ Workflow(p)

\* run where the calling process and every worker go on while they can: the
\* stages of a worker end, and the operating system schedules every process.
FairSpec ==
    /\ Spec
    /\ WF_vars(RunSteps)
    /\ \A p \in Procs : WF_vars(ProcessSteps(p))

(***************************************************************************)
(* The specification of runs of one process that follow one another on    *)
(* the same file with the same control.                                    *)
(***************************************************************************)
\* the number of runs in a behaviour
MaxRuns == 2

\* the client calls run(verbose_error) again after a run that returned
\* success: save wrote nothing, and run looks for no saved results
\* (the TODO of lines 336-337), so the run starts as the first one did
CallRunAgain(verbose_error) ==
    /\ pc[0] = "done"
    /\ rret.kind = "return" /\ rret.success
    /\ rf.run_no < MaxRuns
    /\ rf' = [NoRun EXCEPT !.verbose_error = verbose_error, !.run_no = rf.run_no + 1]
    /\ IF control.input_type = "molecule"
       THEN /\ io' = IF ~verbose_error THEN Redirected ELSE io
            /\ pc' = [pc EXCEPT ![0] = "run_extract"]
       ELSE /\ pc' = [pc EXCEPT ![0] = "run_post"]
            /\ UNCHANGED io
    /\ nf' = [nf EXCEPT ![0] = NoFrame]
    /\ nret' = [nret EXCEPT ![0] = NoRet]
    /\ wf' = [wf EXCEPT ![0] = NoWorkflow]
    /\ wret' = [wret EXCEPT ![0] = NoRet]
    /\ rret' = NoRet
    /\ UNCHANGED <<control, hvars, fs, cvars>>

InitRerun ==
    /\ Init
    /\ control.numCPUs = 1

NextRerun ==
    \/ \E v \in BOOLEAN : CallRun(v)
    \/ \E v \in BOOLEAN : CallRunAgain(v)
    \/ RunExtract
    \/ RunDirect
    \/ RunCheck
    \/ RunPost
    \/ Normalize(0)
    \/ Workflow(0)

SpecRerun == InitRerun /\ [][NextRerun]_vars

(***************************************************************************)
(* The specification of a call of computeMD on the input file.             *)
(***************************************************************************)
\* the client calls computeMD(ifile); oks: whether each RDKit method succeeds
CallComputeMD ==
    /\ pc[0] = "idle"
    /\ \E oks \in [control.MD \ {"custom"} -> BOOLEAN] :
          wf' = [wf EXCEPT ![0] = [NoWorkflow EXCEPT
                    !.ifile = InputPath, !.tfile = InputPath, !.caller = "client",
                    !.mdfile = InputPath, !.mdcalls = Invoked,
                    !.mdresults = MethodResults(InputPath, oks),
                    !.read = ComputeMDReads(InputPath),
                    !.md = ComputeMD(InputPath, oks)]]
    /\ pc' = [pc EXCEPT ![0] = "done"]
    /\ UNCHANGED <<control, hvars, fs, nf, nret, wret, cvars, rvars>>

InitComputeMD ==
    /\ control \in { [DefaultControl EXCEPT !.MD = m] : m \in SUBSET MDNames }
    /\ fs \in { InitDisk(f) : f \in { FileOf(r) : r \in InputFiles } \cup {NoFile, Unreadable} }
    /\ pc = [p \in Procs |-> "idle"]
    /\ nf = [p \in Procs |-> NoFrame]
    /\ nret = [p \in Procs |-> NoRet]
    /\ wf = [p \in Procs |-> NoWorkflow]
    /\ wret = [p \in Procs |-> NoRet]
    /\ cres = <<>>
    /\ cres0 = <<>>
    /\ cret = NoRet
    /\ rf = NoRun
    /\ io = Console
    /\ rret = NoRet
    /\ param = NoParams
    /\ hashes = <<>>

NextComputeMD == CallComputeMD

SpecComputeMD == InitComputeMD /\ [][NextComputeMD]_vars

(***************************************************************************)
(* Parameters (src/flame/parameters.py): getVal, getDict, setVal and       *)
(* idataHash on the dictionary p in the version 1 format, where p[key] is  *)
(* the value itself (extended = False after construction).                 *)
(***************************************************************************)
\* the characters of the model, in code point order
Chars == <<"1", "2", "N", "a", "b", "e", "n", "o">>
Ord(c) == CHOOSE i \in 1 .. Len(Chars) : Chars[i] = c

\* values of parameters: None, a str, an int, or a dict given by its items
\* in iteration order
PValue(type, text, items) == [type |-> type, text |-> text, items |-> items]
PNone == PValue("none", <<>>, <<>>)
PStr(text) == PValue("str", text, <<>>)
PInt(text) == PValue("int", text, <<>>)
PDict(items) == PValue("dict", <<>>, items)

\* str(value): the digits of an int, the characters of a str, 'None'
Str(v) == IF v.type = "none" THEN <<"N", "o", "n", "e">> ELSE v.text

\* s < t for two str, as list.sort compares them
RECURSIVE StrLess(_, _)
StrLess(s, t) ==
    IF t = <<>> THEN FALSE
    ELSE IF s = <<>> THEN TRUE
    ELSE IF Ord(Head(s)) # Ord(Head(t)) THEN Ord(Head(s)) < Ord(Head(t))
    ELSE StrLess(Tail(s), Tail(t))

\* the list with x inserted before the first element greater than x
RECURSIVE Insert(_, _)
Insert(x, sorted) ==
    IF sorted = <<>> THEN <<x>>
    ELSE IF StrLess(Head(sorted), x) THEN <<Head(sorted)>> \o Insert(x, Tail(sorted))
    ELSE <<x>> \o sorted

\* a list.sort that leaves the list as it is
SortNone(list) == list

\* md_list.sort()
RECURSIVE Sort(_)
Sort(list) == IF list = <<>> THEN <<>> ELSE Insert(Head(list), Sort(Tail(list)))

\* keylist of idataHash
KeyList ==
    <<"model_path", "version", "SDFile_name", "SDFile_activity", "SDFile_experimental",
      "normalize_method", "ionize_method", "convert3D_method",
      "computeMD_method", "TSV_varnames", "TSV_objnames",
      "TSV_activity", "input_type", "endpoint">>

\* getVal(key): the value of the key, None if p has no such key
GetVal(p, key) == IF key \notin DOMAIN p THEN PNone ELSE p[key]

\* getDict(key): the dictionary of the key, {} if p has no such key
GetDict(p, key) == IF key \notin DOMAIN p THEN <<>> ELSE p[key].items

\* md_list before the sort: key + str(value) for every key of MD_settings
MDList(md_params) ==
    [i \in 1 .. Len(md_params) |-> md_params[i].key \o Str(md_params[i].value)]

\* pickle.dumps of the list: the values with their types, and the list of
\* str at the end
Pickle(idata_params) == [pickle |-> idata_params]
\* hashlib.md5(p).hexdigest(), without collisions on the inputs of the model
MD5(p) == [md5 |-> p]

\* idataHash()
IdataHash(p) ==
    LET idata_params == [i \in 1 .. Len(KeyList) |-> GetVal(p, KeyList[i])]
        md_list == Sort(MDList(GetDict(p, "MD_settings")))
    IN MD5(Pickle(Append(idata_params, PDict(md_list))))

\* the keys of the parameters Idata reads from control
IdataKeys ==
    {"SDFile_name", "SDFile_activity", "SDFile_experimental", "chemstand_method",
     "ionize_method", "convert3D_method", "MD"}
\* the keys the client sets
SetKeys == IdataKeys \cup {"normalize_method", "computeMD_method", "input_type", "numCPUs"}

\* the names and the values of the sub-parameters of MD_settings
SettingNames == {<<"a">>, <<"a", "b">>}
SettingValues ==
    {PStr(<<"1">>), PStr(<<"2">>), PInt(<<"2">>), PStr(<<"b", "1">>), PStr(<<"b", "2">>)}
Item(k, v) == [key |-> k, value |-> v]
\* the dictionaries over these names, by the order of insertion
Dicts ==
    { d \in SeqsUpTo({ Item(k, v) : k \in SettingNames, v \in SettingValues },
                     Cardinality(SettingNames)) :
        \A i, j \in 1 .. Len(d) : i # j => d[i].key # d[j].key }
ScalarValues == {PNone, PStr(<<"a">>), PStr(<<"b">>)}

\* the number of calls of setVal and of idataHash in a behaviour
MaxChanges == 1
MaxHashes == 2

\* the parameters loaded from a parameter file
BaseParams(settings) ==
    [k \in SetKeys \cup {"MD_settings"} |->
        IF k = "MD_settings" THEN PDict(settings) ELSE PStr(<<"a">>)]
InitSettings ==
    {<<>>, <<Item(<<"a">>, PStr(<<"b", "1">>)), Item(<<"a", "b">>, PStr(<<"2">>))>>}

\* setVal(key, value): self.p[key] = value
SetVal ==
    /\ param.sets >= 0
    /\ param.sets < MaxChanges
    /\ \E key \in SetKeys \cup {"MD_settings"} :
       \E value \in IF key = "MD_settings" THEN { PDict(d) : d \in Dicts }
                    ELSE ScalarValues :
          param' = [p |-> [k \in DOMAIN param.p \cup {key} |->
                              IF k = key THEN value ELSE param.p[k]],
                    sets |-> param.sets + 1]
    /\ UNCHANGED <<control, fs, pc, nf, nret, wf, wret, cvars, rvars, hashes>>

\* the client calls idataHash()
CallIdataHash ==
    /\ param.sets >= 0
    /\ Len(hashes) < MaxHashes
    /\ hashes' = Append(hashes, [p |-> param.p, stamp |-> IdataHash(param.p)])
    /\ UNCHANGED <<control, fs, pc, nf, nret, wf, wret, cvars, rvars, param>>

InitHash ==
    /\ control = DefaultControl
    /\ fs = InitDisk(NoFile)
    /\ pc = [p \in Procs |-> "idle"]
    /\ nf = [p \in Procs |-> NoFrame]
    /\ nret = [p \in Procs |-> NoRet]
    /\ wf = [p \in Procs |-> NoWorkflow]
    /\ wret = [p \in Procs |-> NoRet]
    /\ cres = <<>>
    /\ cres0 = <<>>
    /\ cret = NoRet
    /\ rf = NoRun
    /\ io = Console
    /\ rret = NoRet
    /\ param \in { [p |-> BaseParams(d), sets |-> 0] : d \in InitSettings }
    /\ hashes = <<>>

NextHash ==
    \/ SetVal
    \/ CallIdataHash

SpecHash == InitHash /\ [][NextHash]_vars

(***************************************************************************)
(* The properties of normalize.                                            *)
(***************************************************************************)
\* the output of the call of normalize in process p
Output(p) == fs[nf[p].ofile].recs
\* normalize returned False with a message
NormalizeFailed(p) == nret[p].kind = "return" /\ ~nret[p].success

\* C7: normalize on a file of M parseable structures and any number of
\* unparseable ones writes exactly the M parseable structures, in order, the
\* i-th followed by the flameID 'fl' + the ten digits of i - 1, and counts
\* each unparseable structure without aborting; stated of every call that
\* ended without reporting a reader or standardiser failure.
C7_DenseFlameIDs ==
    \A p \in Procs :
        (nret[p].kind # "none" /\ ~NormalizeFailed(p)) =>
            LET mols == SelectOK(nf[p].suppl) IN
            /\ nret[p].kind = "return"
            /\ Len(Output(p)) = Len(mols)
            /\ \A i \in 1 .. Len(mols) :
                  /\ Output(p)[i].id = mols[i].id
                  /\ Output(p)[i].flameID = FlameID(i - 1)
            /\ nf[p].merror = Len(nf[p].suppl) - Len(mols)

\* C8: with chemstand_method other than 'standardize', normalize on a
\* readable file succeeds and writes every parseable structure unchanged,
\* followed by its sequential flameID.
C8_NoOpWritesAll ==
    \A p \in Procs :
        (control.chemstand_method # "standardize" /\ nf[p].pos >= 1
            /\ nret[p].kind # "none") =>
            LET mols == SelectOK(nf[p].suppl) IN
            /\ nret[p] = Return(TRUE, VPath(nf[p].ofile))
            /\ Output(p) = [i \in 1 .. Len(mols) |-> Written(mols[i], "original", i - 1)]

\* C9: a structure on which the standardiser raises no_non_salt is written
\* in its original form with the next flameID and the batch goes on; any
\* other failure of the standardiser is the last structure processed,
\* whatever number of structures came before it, and normalize returns False.
C9_StandardiserFailures ==
    \A p \in Procs :
        LET os == nf[p].outcomes
            mols == SelectOK(nf[p].suppl)
        IN  /\ \A i \in 1 .. Len(os) :
                  /\ os[i] = "no_non_salt" =>
                        /\ Len(Output(p)) >= i
                        /\ Output(p)[i] = Written(mols[i], "original", i - 1)
                  /\ os[i] \in {"other_exception", "unknown_error"} =>
                        /\ i = Len(os)
                        /\ NormalizeFailed(p)
                        /\ Len(Output(p)) = i - 1
            /\ (os # <<>> /\ os[Len(os)] \in {"ok", "no_non_salt"}) => ~NormalizeFailed(p)

C9_Witness ==
    \E p \in Procs :
        /\ Len(nf[p].outcomes) = 2
        /\ nf[p].outcomes[1] = "no_non_salt"
        /\ nf[p].outcomes[2] = "other_exception"
        /\ NormalizeFailed(p)
        /\ Len(Output(p)) = 1

\* C10: normalize removes the input file only when clean was requested, and
\* only once the output is completely written and closed; on a failure
\* (reader error or standardiser failure) the input file is not removed.
C10_CleanOnlyAfterSuccess ==
    \A p \in Procs :
        /\ (nf[p].ifile # NoPath /\ fs[nf[p].ifile].removed) =>
              /\ nf[p].clean
              /\ nret[p] = Return(TRUE, VPath(nf[p].ofile))
              /\ nf[p].pos > Len(nf[p].suppl)
              /\ fs[nf[p].ofile].exists /\ ~fs[nf[p].ofile].open
              /\ Len(Output(p)) = Len(SelectOK(nf[p].suppl))
        /\ (nf[p].ifile # NoPath /\ (NormalizeFailed(p) \/ nret[p].kind = "raise")) =>
              ~fs[nf[p].ifile].removed

C10_Witness ==
    \E p \in Procs :
        /\ nf[p].ifile # NoPath
        /\ fs[nf[p].ifile].removed
        /\ Len(Output(p)) = MaxMols

(***************************************************************************)
(* The properties of workflow.                                             *)
(***************************************************************************)
\* C1: the first stage of workflow that fails is the last stage invoked, and
\* workflow returns False with a message that names that stage.
C1_ShortCircuit ==
    \A p \in Procs :
        wf[p].failed # <<>> =>
            /\ wf[p].calls[Len(wf[p].calls)] = wf[p].failed[1]
            /\ wret[p].kind # "none" =>
                  /\ wret[p].kind = "return"
                  /\ ~wret[p].success
                  /\ wret[p].value.tag = wf[p].failed[1]

\* the elements of a sequence
Range(seq) == { seq[i] : i \in 1 .. Len(seq) }
\* normalize returned True with the name of its output file
NormalizeSucceeded(p) == nret[p].kind = "return" /\ nret[p].success

\* C11: an optional stage called with a method name it does not implement
\* (ionize implements none; convert3D implements ETKDG) returns a failure,
\* and workflow returns False with the tag of that stage; the file is never
\* passed through as a success.
C11_UnknownMethodFails ==
    \A p \in Procs :
        NormalizeSucceeded(p) =>
            /\ "ionize" \in Range(wf[p].calls) =>
                  /\ "ionize" \in Range(wf[p].failed)
                  /\ wret[p].kind = "return" /\ ~wret[p].success
                  /\ wret[p].value.tag = "ionize"
            /\ ("convert3D" \in Range(wf[p].calls)
                  /\ control.convert3D_method.names # {}
                  /\ "ETKDG" \notin control.convert3D_method.names) =>
                  /\ "convert3D" \in Range(wf[p].failed)
                  /\ wret[p].kind = "return" /\ ~wret[p].success
                  /\ wret[p].value.tag = "convert3D"

\* C12: with ionize_method and convert3D_method both unset, a workflow that
\* returns gives what normalize followed by computeMD alone give: the failure
\* of normalize if it failed, and otherwise the result of computeMD on the
\* output file of normalize, with no other stage invoked.
C12_PassThroughEquivalence ==
    \A p \in Procs :
        (/\ control.ionize_method = None
         /\ control.convert3D_method.none
         /\ wret[p].kind = "return") =>
            IF NormalizeSucceeded(p)
            THEN /\ wf[p].calls = <<"normalize", "computeMD">>
                 /\ wf[p].mdfile = nret[p].value.path
                 /\ wret[p].success = wf[p].md.success
                 /\ wret[p].success => wret[p].value = wf[p].md.value
                 /\ ~wret[p].success => wret[p].value.msg = wf[p].md.value.msg
            ELSE /\ wf[p].calls = <<"normalize">>
                 /\ wret[p] = Return(FALSE, VMsg("normalize", nret[p].value.msg))

(***************************************************************************)
(* The properties of computeMD.                                            *)
(***************************************************************************)
\* computeMD was called in process p
ComputedMD(p) == wf[p].md.kind # "none"
\* the methods that succeeded in the call of computeMD in process p
Succeeded(p) == { i \in 1 .. Len(wf[p].mdresults) : wf[p].mdresults[i].success }

\* C13: computeMD returns the failure 'undefined MD' exactly when none of the
\* methods it called succeeded, and returns success whenever one of them
\* succeeded, wherever in the order of the calls that method is.
C13_UndefinedIffNoneSucceeds ==
    \A p \in Procs :
        ComputedMD(p) =>
            /\ (wf[p].md = Return(FALSE, VMsg("", "undefined MD"))) <=> (Succeeded(p) = {})
            /\ (Succeeded(p) # {}) => wf[p].md.success

\* C14: when two or more methods are called and all succeed, the payload
\* computeMD returns holds one (matrix, names) entry for each of them, in the
\* order of the calls.
C14_OneEntryPerMethod ==
    \A p \in Procs :
        (/\ ComputedMD(p)
         /\ Len(wf[p].mdresults) >= 2
         /\ Succeeded(p) = 1 .. Len(wf[p].mdresults)) =>
            /\ wf[p].md.success
            /\ PayloadEntries(wf[p].md) =
                  [i \in 1 .. Len(wf[p].mdresults) |-> wf[p].mdresults[i].value]

\* C15: computeMD calls no method whose name is not in control.MD, and calls
\* each method at most once.
C15_OnlyEnabledMethods ==
    \A p \in Procs :
        ComputedMD(p) =>
            /\ Range(wf[p].mdcalls) \subseteq control.MD
            /\ \A i, j \in 1 .. Len(wf[p].mdcalls) :
                  wf[p].mdcalls[i] = wf[p].mdcalls[j] => i = j
            /\ Len(wf[p].mdresults) = Len(wf[p].mdcalls)

C15_Witness ==
    /\ ComputedMD(0)
    /\ control.MD = {"RDKit_md"}
    /\ wf[0].mdcalls = <<"RDKit_md">>
    /\ wf[0].md.success

(***************************************************************************)
(* The properties of consolidate.                                          *)
(***************************************************************************)
\* the chunks of rs that hold a numpy matrix
Matrices(rs) == { i \in 1 .. Len(rs) : rs[i].success /\ rs[i].value.md.np }
\* the first chunk of rs that failed (0: none did)
FirstFailed(rs) ==
    IF \E i \in 1 .. Len(rs) : ~rs[i].success
    THEN CHOOSE i \in 1 .. Len(rs) : ~rs[i].success /\ \A j \in 1 .. i - 1 : rs[j].success
    ELSE 0

\* C2: when a chunk failed, consolidate returns False with the message of
\* the first failed chunk, and run returns (False, that message).
C2_FirstFailurePropagates ==
    (cret.kind # "none" /\ FirstFailed(cres0) # 0) =>
        /\ cret = Return(FALSE, cres0[FirstFailed(cres0)].value)
        /\ pc[0] \in {"done", "raised"} =>
              rret = Return(FALSE, cres0[FirstFailed(cres0)].value)

\* C4: when every chunk succeeded with a matrix of the same C columns and the
\* same list of C names, the consolidated list of names has length C and is
\* the list of each chunk, whatever the number of chunks.
C4_NameListLength ==
    (/\ cret.kind # "none"
     /\ cres0 # <<>>
     /\ Matrices(cres0) = 1 .. Len(cres0)
     /\ \A i \in 1 .. Len(cres0) :
           /\ cres0[i].value.md.cols = cres0[1].value.md.cols
           /\ cres0[i].value.md.names = cres0[1].value.md.names
           /\ Len(cres0[i].value.md.names) = cres0[i].value.md.cols) =>
        /\ cret.kind = "return" /\ cret.success
        /\ Len(cret.value.md.names) = cres0[1].value.md.cols
        /\ cret.value.md.names = cres0[1].value.md.names

\* C5: when two chunks hold matrices of different numbers of columns,
\* consolidate fails: it never returns success and never returns a matrix.
C5_ShapeMismatchFails ==
    (/\ cret.kind # "none"
     /\ \E i, j \in Matrices(cres0) : cres0[i].value.md.cols # cres0[j].value.md.cols) =>
        /\ ~(cret.kind = "return" /\ cret.success)
        /\ cret.value.t # "md"

C5_Witness ==
    /\ cret = Raise("ValueError")
    /\ Matrices(cres0) = 1 .. Len(cres0)
    /\ \E i, j \in Matrices(cres0) : cres0[i].value.md.cols # cres0[j].value.md.cols

\* C27: consolidate leaves the list of results as it was handed over: the
\* success, the matrix and the list of names of every chunk, the first
\* chunk included, are after the call what they were before it.
C27_InputsUnchanged ==
    cret.kind # "none" => cres = cres0

(***************************************************************************)
(* The properties of run.                                                  *)
(***************************************************************************)
\* C3: on an input file the reader opens and whose annotations are numbers,
\* run ends by returning a pair (success, value), never by raising, whatever
\* the input_type, the number of workers and the failures of the stages.
C3_RunNeverRaises ==
    (/\ pc[0] \in {"done", "raised"}
     /\ ~ReaderFails(InputPath)
     /\ ~ExtractAnotations(fs[InputPath].recs).raises) =>
        rret.kind = "return"

\* C16: when the split of the input file fails, run returns False with the
\* splitting message, no worker was started, and no stage of workflow ran in
\* any process or on any chunk.
C16_SplitFailureAborts ==
    rf.split = "failed" =>
        /\ rret = Return(FALSE, VMsg("run", "error splitting"))
        /\ pc[0] = "done"
        /\ \A p \in Procs :
              /\ wf[p] = NoWorkflow
              /\ nf[p] = NoFrame
              /\ p # 0 => pc[p] = "idle"
        /\ \A f \in Paths : f # InputPath => fs[f] = NoFile

C16_Witness ==
    /\ rf.split = "failed"
    /\ control.numCPUs = MaxCPUs
    /\ Len(SelectOK(fs[InputPath].recs)) = MaxMols
    /\ rret.kind = "return"

\* the rows of the matrices of a list of results, one after the other
RECURSIVE RowsOf(_)
RowsOf(rs) == IF rs = <<>> THEN <<>> ELSE Head(rs).value.md.rows \o RowsOf(Tail(rs))

\* C17: whatever the order in which the workers end, result i of the list
\* handed to consolidate is the result of the worker of chunk i, and the rows
\* of the merged matrix are the rows of chunk 1, then chunk 2, ..., chunk W.
C17_ChunkOrderPreserved ==
    (control.numCPUs > 1 /\ cret.kind # "none") =>
        /\ Len(cres0) = control.numCPUs
        /\ \A i \in 1 .. Len(cres0) :
              /\ cres0[i] = wret[i]
              /\ wf[i].ifile = rf.split_files_names[i]
        /\ (cret.kind = "return" /\ cret.success) => cret.value.md.rows = RowsOf(cres0)

\* worker MaxCPUs ended before worker 1, and the merged rows are in chunk order
C17_Witness ==
    /\ control.numCPUs = MaxCPUs
    /\ cret.kind = "return" /\ cret.success
    /\ MaxCPUs \in wf[1].ended_before
    /\ Len(cret.value.md.rows) = MaxCPUs
    /\ cret.value.md.rows = RowsOf(cres0)

\* C18: with numCPUs > 1 consolidate is not called and run does not end
\* before every worker has ended (so run does not end while a worker never
\* ends), and once the workers are started run ends if every worker ends.
C18_SynchronousJoin ==
    /\ []((/\ control.numCPUs > 1
            /\ \/ cret.kind # "none"
               \/ /\ rf.split = "done"
                  /\ pc[0] \in {"run_consolidate", "run_check", "run_post",
                                "done", "raised"}) =>
              \A p \in 1 .. control.numCPUs : WorkerEnded(p))
    /\ (pc[0] = "run_join") ~> (pc[0] \in {"done", "raised"})

C18_Witness ==
    /\ control.numCPUs = MaxCPUs
    /\ pc[0] = "done"
    /\ rret.kind = "return" /\ rret.success
    /\ \A p \in 1 .. MaxCPUs : pc[p] = "w_done"

\* the files process p has read and written: those of its normalize and
\* those of the later stages of its workflow
FilesRead(p) == (IF nf[p].pos >= 1 THEN {nf[p].ifile} ELSE {}) \cup wf[p].read
FilesWritten(p) == (IF nf[p].pos >= 1 THEN {nf[p].ofile} ELSE {}) \cup wf[p].written

C20_ExtractAligned ==
    (/\ control.input_type = "molecule"
     /\ ~ReaderFails(InputPath)
     /\ pc[0] \notin {"idle", "run_extract"}) =>
        LET mols == SelectOK(fs[InputPath].recs) IN
        /\ rf.bound
        /\ rf.obj_nam = Ids(mols)
        /\ Len(rf.ymatrix) = Len(mols)
        /\ Len(rf.experim) = Len(mols)
        /\ \A i \in 1 .. Len(mols) : (rf.ymatrix[i] = "nan") <=> (mols[i].act # "number")

\* C24: a run that follows a run that returned success, on the same file
\* with the same control, takes the saved results and calls no stage of
\* the workflow again.
C24_SecondRunReusesResults ==
    rf.run_no > 1 => wf[0].calls = <<>>

\* C25: whenever run has returned, with success or with a failure, the
\* standard error stream goes to where it went before the call and
\* errorRDKit.log is closed.
C25_StderrRestoredOnReturn ==
    (pc[0] = "done" /\ rret.kind = "return") =>
        io.stderr = "console" /\ ~io.log_open

\* C26: when run with one worker returns success on a molecular file, the
\* matrix has as many rows as there are names, activities and experimental
\* values, whatever structures of the file RDKit can parse.
C26_RowsMatchAnnotations ==
    (/\ pc[0] = "done"
     /\ rret.kind = "return" /\ rret.success
     /\ control.input_type = "molecule"
     /\ control.numCPUs = 1) =>
        /\ Len(rret.value.md.rows) = Len(rf.obj_nam)
        /\ Len(rret.value.md.rows) = Len(rf.ymatrix)
        /\ Len(rret.value.md.rows) = Len(rf.experim)

\* a successful run of one worker on a file that mixes structures RDKit
\* parses with structures it does not
C26_Witness ==
    /\ pc[0] = "done"
    /\ rret.kind = "return" /\ rret.success
    /\ control.input_type = "molecule"
    /\ control.numCPUs = 1
    /\ wf[0].calls # <<>>
    /\ NormalizeSucceeded(0)
    /\ Len(rf.obj_nam) >= 1
    /\ Len(rf.obj_nam) < Len(fs[InputPath].recs)
    /\ Len(rret.value.md.rows) = Len(rf.obj_nam)

\* C28: run and workflow never call normalize with clean = True, no step
\* deletes or rewrites the input file or a chunk file that is on disk (the
\* paths without a suffix), and the files the stages have written stay on
\* disk.
C28_OriginalsKept ==
    /\ [](\A p \in Procs : ~nf[p].clean)
    /\ [](\A p \in Procs : \A f \in FilesWritten(p) : fs[f].exists /\ ~fs[f].removed)
    /\ [][\A path \in { f \in Paths : f.sfx = <<>> } :
            fs[path].exists =>
                /\ fs'[path].exists /\ ~fs'[path].removed
                /\ fs'[path].recs = fs[path].recs]_vars

\* run with MaxCPUs workers has returned success: the input file, the
\* chunks and the files derived from them are on disk
C28_Witness ==
    /\ pc[0] = "done"
    /\ rret.kind = "return" /\ rret.success
    /\ control.numCPUs = MaxCPUs
    /\ fs[InputPath].exists
    /\ Len(fs[InputPath].recs) >= MaxCPUs
    /\ \A i \in 1 .. MaxCPUs :
          /\ fs[ChunkPath(i)].exists
          /\ fs[ChunkPath(i)].recs = Chunk(fs[InputPath].recs, MaxCPUs, i)
          /\ NormalizeSucceeded(i)
          /\ fs[StdPath(ChunkPath(i))].exists

\* C6: the matrix run yields holds one row for each of the K parseable
\* structures of the input file, in the order of the file, whatever the
\* number W of workers from 1 to K.
C6_RowsPreserved ==
    (rret.kind = "return" /\ rret.success) =>
        rret.value.md.rows = Ids(SelectOK(fs[InputPath].recs))

C6_Witness ==
    /\ rret.kind = "return" /\ rret.success
    /\ control.numCPUs = MaxCPUs
    /\ Len(rret.value.md.rows) = MaxCPUs
    /\ Len(fs[InputPath].recs) = MaxCPUs

(***************************************************************************)
(* The properties of the stamp of Parameters.idataHash.                    *)
(***************************************************************************)
\* two dictionaries hold the same value for every key of keylist
SameHashedKeys(p, q) ==
    \A i \in 1 .. Len(KeyList) : GetVal(p, KeyList[i]) = GetVal(q, KeyList[i])

\* C21: two dictionaries that differ in the value of a key Idata reads
\* (the field names, chemstand_method, ionize_method, convert3D_method, MD)
\* have different stamps.
C21_RelevantKeyChangesStamp ==
    \A i, j \in 1 .. Len(hashes) :
        (\E k \in IdataKeys : GetVal(hashes[i].p, k) # GetVal(hashes[j].p, k)) =>
            hashes[i].stamp # hashes[j].stamp

\* C22: two dictionaries with the same names in MD_settings and the same
\* values for the keys of keylist, which differ in the value of a
\* sub-parameter, have different stamps.
C22_SettingValueChangesStamp ==
    \A i, j \in 1 .. Len(hashes) :
        LET d == GetDict(hashes[i].p, "MD_settings")
            e == GetDict(hashes[j].p, "MD_settings")
        IN (/\ SameHashedKeys(hashes[i].p, hashes[j].p)
            /\ { d[n].key : n \in 1 .. Len(d) } = { e[n].key : n \in 1 .. Len(e) }
            /\ Range(d) # Range(e)) =>
               hashes[i].stamp # hashes[j].stamp

\* C23: two dictionaries whose MD_settings hold the same sub-parameters
\* with the same values, in whatever order, and the same values for the
\* keys of keylist, have the same stamp.
C23_OrderDoesNotChangeStamp ==
    \A i, j \in 1 .. Len(hashes) :
        (/\ SameHashedKeys(hashes[i].p, hashes[j].p)
         /\ Range(GetDict(hashes[i].p, "MD_settings")) = Range(GetDict(hashes[j].p, "MD_settings"))) =>
            hashes[i].stamp = hashes[j].stamp

\* two stamps were computed for the same sub-parameters in two orders
C23_Witness ==
    /\ Len(hashes) = 2
    /\ SameHashedKeys(hashes[1].p, hashes[2].p)
    /\ Len(GetDict(hashes[1].p, "MD_settings")) = 2
    /\ Range(GetDict(hashes[1].p, "MD_settings")) = Range(GetDict(hashes[2].p, "MD_settings"))
    /\ GetDict(hashes[1].p, "MD_settings") # GetDict(hashes[2].p, "MD_settings")
    /\ hashes[1].stamp = hashes[2].stamp

====
